---- MODULE Spec2Model ----
(***************************************************************************)
(* A model of SharedPtr<T> (src/shared.h): control blocks with a plain     *)
(* size_t reference count, the handle operations that share, transfer and  *)
(* release them, and MakeShared.                                           *)
(*                                                                         *)
(* Handles are the program's SharedPtr variables.  The element type T of a *)
(* handle only decides which overload a call resolves to (the same-type or *)
(* the converting constructor); no operation's effect depends on it, so a  *)
(* handle carries no type and both overloads are modelled for every pair.  *)
(* TMP is the slot of the one temporary an operation creates (the local   *)
(* copy `tmp` of Swap, the converted argument of an assignment across      *)
(* types).  Control blocks and the objects they own get                    *)
(* fresh identities and keep them after they are freed, so a second delete *)
(* or a use after free would be visible.                                   *)
(* The raw pointer handed to the raw-pointer constructor and to Reset(ptr) *)
(* is either null or the address of an object just created by `new` (each  *)
(* raw pointer is adopted at most once); block b adopts object b.          *)
(* The client keeps its handles in automatic variables: they are destroyed *)
(* in the reverse order of their construction; any handle may be emptied   *)
(* at any time through Reset, assignment or a move.                        *)
(* Spec runs the public operations one at a time; SpecRace runs the        *)
(* release path statement by statement in two threads.                     *)
(***************************************************************************)
EXTENDS Integers, Sequences, FiniteSets, TLC

\* ------------------------------------------------------------ bounds ----
MaxHandles == 3        \* SharedPtr variables of the client program
MaxBlocks == 2         \* control blocks allocated over a whole run
MaxOps == 4            \* public operations called over a whole run

\* ------------------------------------------------------------- values ---
NULL == 0
TMP == 0               \* the slot of Swap's local `tmp`
Handles == 1..MaxHandles
Slots == Handles \cup {TMP}
BlockIds == 1..MaxBlocks

\* The concrete types Y a control block is created for, as in the tests
\* (B : A, Derived : Base).  The client's allocations alternate between them.
Types == {"Base", "Derived"}
TypeOfNew(nb) == IF nb % 2 = 1 THEN "Derived" ELSE "Base"

\* Addresses: of the whole object o, and of a member sub-object of o.
Addr(o) == 2 * o
Member(o) == 2 * o + 1

VARIABLES handles,     \* slot -> [live, data, cb]: data_ and control_block_
          blocks,      \* block id -> the control block (ControlBlockBase)
          objects,     \* object id -> how many times its destructor ran
          op,          \* the last public operation and its arguments
          pre,         \* the state that operation started from
          mid,         \* the states between the calls that operation made
          nops,        \* public operations called so far
          news,        \* calls of operator new made by the library so far
          race         \* thread -> where it is inside a release, and what it read

vars == <<handles, blocks, objects, op, pre, mid, nops, news, race>>

\* A handle that does not exist (not yet constructed, or destroyed).
NoHandle == [live |-> FALSE, data |-> NULL, cb |-> NULL]
\* A block id that was never returned by `new`.
NoBlock == [state |-> "unalloc", kind |-> "none", Y |-> "none", ptr |-> NULL,
            ref_cnt |-> 0, deleted |-> 0]
NoObject == [state |-> "unalloc", dtors |-> 0, dtorType |-> "none"]

\* The program state the operations transform.
Cur == [h |-> handles, b |-> blocks, o |-> objects, n |-> news]

\* ------------------------------------------------- the allocator's part --
\* What operator new returns next: an identity never handed out before.
FreshBlock(S) == CHOOSE b \in BlockIds :
                    /\ S.b[b].state = "unalloc"
                    /\ \A c \in BlockIds : c < b => S.b[c].state # "unalloc"
CanAllocate(S) == \E b \in BlockIds : S.b[b].state = "unalloc"

\* The object an address lies in.
ObjOf(ptr) == ptr \div 2

\* The client's `new Y`: object o comes to life.
NewObject(S, o) == [S EXCEPT !.o[o] = [state |-> "alive", dtors |-> 0,
                                       dtorType |-> "none"]]

\* ~Y() runs on object o.
RunDestructor(S, o, Y) ==
    [S EXCEPT !.o[o] = [state |-> "dead", dtors |-> @.dtors + 1, dtorType |-> Y]]

\* ----------------------------------------------------- control blocks ---
\* A ControlBlockBase whose count starts at 0 instead of 1.
ControlBlockBaseZero == [state |-> "live", kind |-> "none", Y |-> "none",
                         ptr |-> NULL, ref_cnt |-> 0, deleted |-> 0]

\* ControlBlockBase: ref_cnt = 1 at construction.
ControlBlockBase == [state |-> "live", kind |-> "none", Y |-> "none",
                     ptr |-> NULL, ref_cnt |-> 1, deleted |-> 0]

\* new ControlBlockPtr<Y>(ptr) at address nb.
ControlBlockPtr(S, nb, Y, ptr) ==
    [S EXCEPT !.b[nb] = [ControlBlockBase EXCEPT !.kind = "ptr", !.Y = Y,
                                                 !.ptr = ptr],
              !.n = @ + 1]

\* new ControlBlockHolder<Y>(args...) at address nb: Y is constructed in the
\* block's own storage_; the embedded object is object nb.
ControlBlockHolder(S, nb, Y) ==
    [NewObject(S, nb) EXCEPT !.b[nb] = [ControlBlockBase EXCEPT !.kind = "holder",
                                                                !.Y = Y],
                             !.n = @ + 1]

\* ControlBlockHolder::GetRawPointer: the address of storage_.
GetRawPointer(nb) == Addr(nb)

\* A ~ControlBlockPtr that deletes through a pointer to the base type (what a
\* block that kept a T* of the handle would do).
DtorControlBlockPtrAsBase(S, cb) ==
    IF S.b[cb].ptr # NULL
    THEN RunDestructor(S, ObjOf(S.b[cb].ptr), "Base")
    ELSE S

\* ~ControlBlockPtr: delete ptr_ (as a Y) unless it is null.
DtorControlBlockPtr(S, cb) ==
    IF S.b[cb].ptr # NULL
    THEN RunDestructor(S, ObjOf(S.b[cb].ptr), S.b[cb].Y)
    ELSE S

\* ~ControlBlockHolder: ~Y() in place on storage_.
DtorControlBlockHolder(S, cb) == RunDestructor(S, cb, S.b[cb].Y)

\* `delete control_block_`: the virtual destructor of the concrete block, then
\* the block's storage is freed.
DeleteBlock(S, cb) ==
    LET S1 == IF S.b[cb].kind = "ptr" THEN DtorControlBlockPtr(S, cb)
                                      ELSE DtorControlBlockHolder(S, cb)
    IN  [S1 EXCEPT !.b[cb].state = "freed", !.b[cb].deleted = @ + 1]

\* ---------------------------------------------------------- observers ---
Get(S, h) == S.h[h].data
UseCount(S, h) == IF S.h[h].cb # NULL THEN S.b[S.h[h].cb].ref_cnt ELSE 0
OperatorBool(S, h) == IF S.h[h].data # NULL THEN TRUE ELSE FALSE

\* ------------------------------------------- constructors, destructor ---
\* A SharedPtr(nullptr_t) that allocates a control block for the null pointer,
\* as SharedPtr(Y*) does.
NullptrCtorAllocates(S, h) ==
    LET nb == FreshBlock(S)
    IN  [ControlBlockPtr(S, nb, "Base", NULL)
            EXCEPT !.h[h] = [live |-> TRUE, data |-> NULL, cb |-> nb]]

\* SharedPtr() and SharedPtr(nullptr_t).
DefaultCtor(S, h) ==
    [S EXCEPT !.h[h] = [live |-> TRUE, data |-> NULL, cb |-> NULL]]
NullptrCtor(S, h) ==
    [S EXCEPT !.h[h] = [live |-> TRUE, data |-> NULL, cb |-> NULL]]

\* explicit SharedPtr(Y* ptr).
PtrCtor(S, h, Y, ptr) ==
    LET nb == FreshBlock(S)
    IN  [ControlBlockPtr(S, nb, Y, ptr)
            EXCEPT !.h[h] = [live |-> TRUE, data |-> ptr, cb |-> nb]]

\* A copy constructor that shares the block but forgets ++ref_cnt.
CopyCtorNoIncrement(S, h, other) ==
    [S EXCEPT !.h[h] = [live |-> TRUE, data |-> S.h[other].data,
                        cb |-> S.h[other].cb]]

\* SharedPtr(const SharedPtr& other).
CopyCtor(S, h, other) ==
    LET S1 == [S EXCEPT !.h[h] = [live |-> TRUE, data |-> S.h[other].data,
                                  cb |-> S.h[other].cb]]
    IN  IF S1.h[h].cb # NULL
        THEN [S1 EXCEPT !.b[S1.h[h].cb].ref_cnt = @ + 1]
        ELSE S1

\* A move constructor that forgets other.data_ = nullptr.
MoveCtorKeepsData(S, h, other) ==
    LET S1 == [S EXCEPT !.h[h] = [live |-> TRUE, data |-> S.h[other].data,
                                  cb |-> S.h[other].cb]]
    IN  [S1 EXCEPT !.h[other].cb = NULL]

\* SharedPtr(SharedPtr&& other).
MoveCtor(S, h, other) ==
    LET S1 == [S EXCEPT !.h[h] = [live |-> TRUE, data |-> S.h[other].data,
                                  cb |-> S.h[other].cb]]
    IN  [S1 EXCEPT !.h[other].data = NULL, !.h[other].cb = NULL]

\* A converting copy constructor that forgets ++ref_cnt.
ConvCopyCtorNoIncrement(S, h, other) ==
    [S EXCEPT !.h[h] = [live |-> TRUE, data |-> S.h[other].data,
                        cb |-> S.h[other].cb]]

\* template <Y> SharedPtr(const SharedPtr<Y>& other).
ConvCopyCtor(S, h, other) ==
    LET S1 == [S EXCEPT !.h[h] = [live |-> TRUE, data |-> S.h[other].data,
                                  cb |-> S.h[other].cb]]
    IN  IF S1.h[h].cb # NULL
        THEN [S1 EXCEPT !.b[S1.h[h].cb].ref_cnt = @ + 1]
        ELSE S1

\* A converting move constructor that takes a share like a copy does and
\* leaves the source as it was.
ConvMoveCtorCopies(S, h, other) ==
    LET S1 == [S EXCEPT !.h[h] = [live |-> TRUE, data |-> S.h[other].data,
                                  cb |-> S.h[other].cb]]
    IN  IF S1.h[h].cb # NULL
        THEN [S1 EXCEPT !.b[S1.h[h].cb].ref_cnt = @ + 1]
        ELSE S1

\* A converting move constructor that takes the fields and leaves them in the
\* source too.
ConvMoveCtorKeepsSource(S, h, other) ==
    [S EXCEPT !.h[h] = [live |-> TRUE, data |-> S.h[other].data,
                        cb |-> S.h[other].cb]]

\* template <Y> SharedPtr(SharedPtr<Y>&& other).
ConvMoveCtor(S, h, other) ==
    LET S1 == [S EXCEPT !.h[h] = [live |-> TRUE, data |-> S.h[other].data,
                                  cb |-> S.h[other].cb]]
    IN  [S1 EXCEPT !.h[other].data = NULL, !.h[other].cb = NULL]

\* An aliasing constructor that forgets ++ref_cnt.
AliasingCtorNoIncrement(S, h, other, ptr) ==
    [S EXCEPT !.h[h] = [live |-> TRUE, data |-> ptr, cb |-> S.h[other].cb]]

\* The aliasing constructor SharedPtr(const SharedPtr<Y>& other, T* ptr): the
\* increment is unconditional, so other must own a block.
AliasingCtor(S, h, other, ptr) ==
    LET S1 == [S EXCEPT !.h[h] = [live |-> TRUE, data |-> ptr,
                                  cb |-> S.h[other].cb]]
    IN  [S1 EXCEPT !.b[S1.h[h].cb].ref_cnt = @ + 1]

\* A destructor that deletes the block whatever the count.
DtorAlwaysDeletes(S, h) ==
    LET cb == S.h[h].cb
        S1 == IF cb # NULL THEN DeleteBlock(S, cb) ELSE S
    IN  [S1 EXCEPT !.h[h] = NoHandle]

\* ~SharedPtr(): the handle is gone afterwards.
Dtor(S, h) ==
    LET cb == S.h[h].cb
        S1 == IF cb # NULL
              THEN IF S.b[cb].ref_cnt = 1
                   THEN DeleteBlock(S, cb)
                   ELSE [S EXCEPT !.b[cb].ref_cnt = @ - 1]
              ELSE S
    IN  [S1 EXCEPT !.h[h] = NoHandle]

\* ---------------------------------------------------------- modifiers ---
\* A Reset() that only forgets its fields and never releases its share.
ResetNoRelease(S, h) == [S EXCEPT !.h[h].data = NULL, !.h[h].cb = NULL]

\* void Reset().
Reset(S, h) ==
    LET cb == S.h[h].cb
        S1 == IF cb # NULL
              THEN IF S.b[cb].ref_cnt = 1
                   THEN DeleteBlock(S, cb)
                   ELSE [S EXCEPT !.b[cb].ref_cnt = @ - 1]
              ELSE S
    IN  [S1 EXCEPT !.h[h].data = NULL, !.h[h].cb = NULL]

\* A Reset(ptr) that adopts ptr without releasing what the handle held.
ResetPtrNoRelease(S, h, Y, ptr) ==
    LET nb == FreshBlock(S)
    IN  [ControlBlockPtr(S, nb, Y, ptr) EXCEPT !.h[h].data = ptr, !.h[h].cb = nb]

\* template <Y> void Reset(Y* ptr).
ResetPtr(S, h, Y, ptr) ==
    LET cb == S.h[h].cb
        S1 == IF cb # NULL
              THEN IF S.b[cb].ref_cnt = 1
                   THEN DeleteBlock(S, cb)
                   ELSE [S EXCEPT !.b[cb].ref_cnt = @ - 1]
              ELSE S
        nb == FreshBlock(S)
    IN  [ControlBlockPtr(S1, nb, Y, ptr)
            EXCEPT !.h[h].data = ptr, !.h[h].cb = nb]

\* A copy assignment that overwrites the fields without releasing what the
\* destination owned.
CopyAssignNoRelease(S, h, other) ==
    LET S2 == [S EXCEPT !.h[h].data = S.h[other].data,
                        !.h[h].cb = S.h[other].cb]
        S3 == IF S2.h[h].cb # NULL
              THEN [S2 EXCEPT !.b[S2.h[h].cb].ref_cnt = @ + 1]
              ELSE S2
    IN  <<S, S3>>

\* A copy assignment that saves other's fields before this->Reset() and
\* installs the saved fields afterwards.
CopyAssignSavesOtherFirst(S, h, other) ==
    LET data == S.h[other].data
        cb == S.h[other].cb
        S1 == Reset(S, h)
        S2 == [S1 EXCEPT !.h[h].data = data, !.h[h].cb = cb]
        S3 == IF cb # NULL THEN [S2 EXCEPT !.b[cb].ref_cnt = @ + 1] ELSE S2
    IN  <<S1, S3>>

\* operator=(const SharedPtr& other), as the states after each call it makes:
\* after this->Reset(), and after the fields are copied and the count raised.
CopyAssign(S, h, other) ==
    LET S1 == Reset(S, h)
        S2 == [S1 EXCEPT !.h[h].data = S1.h[other].data,
                         !.h[h].cb = S1.h[other].cb]
        S3 == IF S2.h[h].cb # NULL
              THEN [S2 EXCEPT !.b[S2.h[h].cb].ref_cnt = @ + 1]
              ELSE S2
    IN  <<S1, S3>>

\* A move assignment that keeps the source's fields (a copy without the
\* increment).
MoveAssignKeepsSource(S, h, other) ==
    LET S1 == Reset(S, h)
        S2 == [S1 EXCEPT !.h[h].data = Get(S1, other),
                         !.h[h].cb = S1.h[other].cb]
    IN  <<S1, S2>>

\* operator=(SharedPtr&& other): after this->Reset(), and after the transfer.
MoveAssign(S, h, other) ==
    LET S1 == Reset(S, h)
        S2 == [S1 EXCEPT !.h[h].data = Get(S1, other),
                         !.h[h].cb = S1.h[other].cb]
        S3 == [S2 EXCEPT !.h[other].data = NULL, !.h[other].cb = NULL]
    IN  <<S1, S3>>

Final(steps) == steps[Len(steps)]

\* A swap without the local copy: *this = other; other = *this.
SwapWithoutTmp(S, h, other) ==
    LET t2 == CopyAssign(S, h, other)
        t3 == CopyAssign(Final(t2), other, h)
    IN  t2 \o t3

\* A Swap by three moves (tmp = move(*this); *this = move(other);
\* other = move(tmp)): no count is touched at any step.
SwapByMove(S, h, other) ==
    LET S1 == MoveCtor(S, TMP, h)
        t2 == MoveAssign(S1, h, other)
        t3 == MoveAssign(Final(t2), other, TMP)
        S4 == Dtor(Final(t3), TMP)
    IN  <<S1>> \o t2 \o t3 \o <<S4>>

\* void Swap(SharedPtr& other): auto tmp = *this; *this = other; other = tmp;
\* and tmp's destructor at the end of the scope.
Swap(S, h, other) ==
    LET S1 == CopyCtor(S, TMP, h)
        t2 == CopyAssign(S1, h, other)
        t3 == CopyAssign(Final(t2), other, TMP)
        S4 == Dtor(Final(t3), TMP)
    IN  <<S1>> \o t2 \o t3 \o <<S4>>

\* a = b with b a SharedPtr<Y> of another type: there is no converting
\* operator=, so the argument is converted by the converting copy constructor
\* into a temporary, the temporary is bound to operator=(SharedPtr&&), and
\* the temporary is destroyed at the end of the expression.
ConvCopyAssign(S, h, other) ==
    LET S1 == ConvCopyCtor(S, TMP, other)
        t2 == MoveAssign(S1, h, TMP)
        S3 == Dtor(Final(t2), TMP)
    IN  <<S1>> \o t2 \o <<S3>>

\* a = std::move(b) with b a SharedPtr<Y> of another type: the temporary is
\* made by the converting move constructor.
ConvMoveAssign(S, h, other) ==
    LET S1 == ConvMoveCtor(S, TMP, other)
        t2 == MoveAssign(S1, h, TMP)
        S3 == Dtor(Final(t2), TMP)
    IN  <<S1>> \o t2 \o <<S3>>

\* A MakeShared that allocates the payload on its own and adopts it: two
\* allocations, payload outside the block.
MakeSharedTwoAllocations(S, h, Y) ==
    LET nb == FreshBlock(S)
        S1 == [NewObject(S, nb) EXCEPT !.n = @ + 1]
    IN  PtrCtor(S1, h, Y, Addr(nb))

\* MakeShared<Y>(args...): the returned handle is constructed in slot h.
MakeShared(S, h, Y) ==
    LET S0 == DefaultCtor(S, h)
        block == FreshBlock(S0)
        S1 == ControlBlockHolder(S0, block, Y)
    IN  [S1 EXCEPT !.h[h].cb = block, !.h[h].data = GetRawPointer(block)]

\* Two threads; thread t releases handle t.  Outside a race no thread runs.
Threads == {1, 2}
RaceIdle == [t \in Threads |-> [pc |-> "idle", reg |-> 0, path |-> "none"]]

\* The program before anything was constructed.
EmptyState == [h |-> [h \in Slots |-> NoHandle],
               b |-> [b \in BlockIds |-> NoBlock],
               o |-> [o \in BlockIds |-> NoObject],
               n |-> 0]

Init ==
    /\ handles = [h \in Slots |-> NoHandle]
    /\ blocks = [b \in BlockIds |-> NoBlock]
    /\ objects = [o \in BlockIds |-> NoObject]
    /\ op = [name |-> "init", a |-> 0, b |-> 0, p |-> NULL]
    /\ pre = [h |-> [h \in Slots |-> NoHandle],
              b |-> [b \in BlockIds |-> NoBlock],
              o |-> [o \in BlockIds |-> NoObject],
              n |-> 0]
    /\ mid = <<>>
    /\ nops = 0
    /\ news = 0
    /\ race = RaceIdle

\* ------------------------------------------------------------ actions ---
\* One public operation: the program moves to the last state of `steps`; the
\* states between the calls the operation made are kept in mid.
Step(name, a, b, p, steps) ==
    /\ nops < MaxOps
    /\ nops' = nops + 1
    /\ handles' = Final(steps).h
    /\ blocks' = Final(steps).b
    /\ objects' = Final(steps).o
    /\ news' = Final(steps).n
    /\ op' = [name |-> name, a |-> a, b |-> b, p |-> p]
    /\ pre' = Cur
    /\ mid' = SubSeq(steps, 1, Len(steps) - 1)
    /\ UNCHANGED race

Live(h) == handles[h].live
\* Automatic variables: a handle comes to life in the first slot that holds
\* none, and the handle constructed last is the one destroyed next.
Unborn(h) == ~Live(h) /\ \A g \in Handles : g < h => Live(g)
Newest(h) == Live(h) /\ \A g \in Handles : g > h => ~Live(g)

\* The raw pointers a client passes: null, or a `new Y` made for this call.
RawPtr(isNull) == IF isNull THEN NULL ELSE Addr(FreshBlock(Cur))
WithNew(isNull) == IF isNull THEN Cur ELSE NewObject(Cur, FreshBlock(Cur))

\* The object a block keeps alive, as a set (empty for an adopted null).
Owned(S, cb) == IF cb = NULL THEN {}
                ELSE IF S.b[cb].kind = "holder" THEN {cb}
                ELSE IF S.b[cb].ptr # NULL THEN {ObjOf(S.b[cb].ptr)} ELSE {}

\* The data pointers a client passes to the aliasing constructor: null, or
\* the address of a member of the object that other's block keeps alive.
AliasPtrs(other) == {NULL} \cup {Member(o) : o \in Owned(Cur, handles[other].cb)}

CallDefaultCtor(h) ==
    /\ Unborn(h)
    /\ Step("DefaultCtor", h, 0, NULL, <<DefaultCtor(Cur, h)>>)

CallNullptrCtor(h) ==
    /\ Unborn(h)
    /\ Step("NullptrCtor", h, 0, NULL, <<NullptrCtor(Cur, h)>>)

CallPtrCtor(h, isNull) ==
    /\ Unborn(h)
    /\ CanAllocate(Cur)
    /\ Step("PtrCtor", h, 0, RawPtr(isNull),
            <<PtrCtor(WithNew(isNull), h, TypeOfNew(FreshBlock(Cur)), RawPtr(isNull))>>)

CallCopyCtor(h, other) ==
    /\ Unborn(h) /\ Live(other)
    /\ Step("CopyCtor", h, other, NULL, <<CopyCtor(Cur, h, other)>>)

CallMoveCtor(h, other) ==
    /\ Unborn(h) /\ Live(other)
    /\ Step("MoveCtor", h, other, NULL, <<MoveCtor(Cur, h, other)>>)

CallConvCopyCtor(h, other) ==
    /\ Unborn(h) /\ Live(other)
    /\ Step("ConvCopyCtor", h, other, NULL, <<ConvCopyCtor(Cur, h, other)>>)

CallConvMoveCtor(h, other) ==
    /\ Unborn(h) /\ Live(other)
    /\ Step("ConvMoveCtor", h, other, NULL, <<ConvMoveCtor(Cur, h, other)>>)

\* Aliasing from a handle that owns a block (the constructor's contract).
CallAliasingCtor(h, other, ptr) ==
    /\ Unborn(h) /\ Live(other)
    /\ handles[other].cb # NULL
    /\ Step("AliasingCtor", h, other, ptr, <<AliasingCtor(Cur, h, other, ptr)>>)

CallCopyAssign(h, other) ==
    /\ Live(h) /\ Live(other)
    /\ Step("CopyAssign", h, other, NULL, CopyAssign(Cur, h, other))

CallMoveAssign(h, other) ==
    /\ Live(h) /\ Live(other)
    /\ Step("MoveAssign", h, other, NULL, MoveAssign(Cur, h, other))

CallDtor(h) ==
    /\ Newest(h)
    /\ Step("Dtor", h, 0, NULL, <<Dtor(Cur, h)>>)

CallReset(h) ==
    /\ Live(h)
    /\ Step("Reset", h, 0, NULL, <<Reset(Cur, h)>>)

CallResetPtr(h, isNull) ==
    /\ Live(h)
    /\ CanAllocate(Cur)
    /\ Step("ResetPtr", h, 0, RawPtr(isNull),
            <<ResetPtr(WithNew(isNull), h, TypeOfNew(FreshBlock(Cur)), RawPtr(isNull))>>)

CallSwap(h, other) ==
    /\ Live(h) /\ Live(other)
    /\ Step("Swap", h, other, NULL, Swap(Cur, h, other))

CallMakeShared(h) ==
    /\ Unborn(h)
    /\ CanAllocate(Cur)
    /\ Step("MakeShared", h, 0, NULL, <<MakeShared(Cur, h, TypeOfNew(FreshBlock(Cur)))>>)

\* Handles of different types are different objects: h # other.
CallConvCopyAssign(h, other) ==
    /\ Live(h) /\ Live(other) /\ h # other
    /\ Step("ConvCopyAssign", h, other, NULL, ConvCopyAssign(Cur, h, other))

CallConvMoveAssign(h, other) ==
    /\ Live(h) /\ Live(other) /\ h # other
    /\ Step("ConvMoveAssign", h, other, NULL, ConvMoveAssign(Cur, h, other))

Next ==
    \/ \E h \in Handles : CallDefaultCtor(h)
    \/ \E h \in Handles : CallNullptrCtor(h)
    \/ \E h \in Handles, isNull \in BOOLEAN : CallPtrCtor(h, isNull)
    \/ \E h, other \in Handles : CallCopyCtor(h, other)
    \/ \E h, other \in Handles : CallMoveCtor(h, other)
    \/ \E h, other \in Handles : CallConvCopyCtor(h, other)
    \/ \E h, other \in Handles : CallConvMoveCtor(h, other)
    \/ \E h, other \in Handles : \E ptr \in AliasPtrs(other) : CallAliasingCtor(h, other, ptr)
    \/ \E h, other \in Handles : CallCopyAssign(h, other)
    \/ \E h, other \in Handles : CallMoveAssign(h, other)
    \/ \E h, other \in Handles : CallConvCopyAssign(h, other)
    \/ \E h, other \in Handles : CallConvMoveAssign(h, other)
    \/ \E h \in Handles : CallDtor(h)
    \/ \E h \in Handles : CallReset(h)
    \/ \E h \in Handles, isNull \in BOOLEAN : CallResetPtr(h, isNull)
    \/ \E h, other \in Handles : CallSwap(h, other)
    \/ \E h \in Handles : CallMakeShared(h)

Spec == Init /\ [][Next]_vars

\* ------------------------------------------- two threads in a release ---
\* The release path of ~SharedPtr and Reset(), statement by statement, run by
\* two threads on the last two handles of one block. ref_cnt is a plain
\* size_t: the comparison reads it, and --ref_cnt reads it and writes it back.
Paths == {"Dtor", "Reset"}

\* What a read of ref_cnt through a dangling control_block_ may compare as:
\* equal to 1, or not.
Garbage == {1, 2}

ReadCnt(S, cb) == IF S.b[cb].state = "live" THEN {S.b[cb].ref_cnt} ELSE Garbage

\* The program state and the threads, as one value.
CurRace == [S |-> Cur, t |-> race]

\* if (control_block_) if (control_block_->ref_cnt == 1) ... else ...
Test(R, t) ==
    LET cb == R.S.h[t].cb
    IN  IF R.t[t].pc # "test" THEN {}
        ELSE IF cb = NULL THEN {[R EXCEPT !.t[t].pc = "end"]}
        ELSE {[R EXCEPT !.t[t].reg = v,
                        !.t[t].pc = IF v = 1 THEN "delete" ELSE "dec"]
                 : v \in ReadCnt(R.S, cb)}

\* --control_block_->ref_cnt, its read: the value is read again, or the one
\* the comparison read is reused (the compiler may do either).
Load(R, t) ==
    IF R.t[t].pc # "dec" THEN {}
    ELSE {[R EXCEPT !.t[t].reg = v, !.t[t].pc = "store"]
             : v \in ReadCnt(R.S, R.S.h[t].cb) \cup {R.t[t].reg}}

\* --control_block_->ref_cnt, its write (lost if the block is gone).
Store(R, t) ==
    LET cb == R.S.h[t].cb
    IN  IF R.t[t].pc # "store" THEN {}
        ELSE {[R EXCEPT !.S = IF R.S.b[cb].state = "live"
                              THEN [R.S EXCEPT !.b[cb].ref_cnt = R.t[t].reg - 1]
                              ELSE R.S,
                        !.t[t].pc = "end"]}

\* delete control_block_.
Delete(R, t) ==
    IF R.t[t].pc # "delete" THEN {}
    ELSE {[R EXCEPT !.S = DeleteBlock(R.S, R.S.h[t].cb), !.t[t].pc = "end"]}

\* The end of the release: the destructor's handle is no more; Reset() sets
\* data_ and control_block_ to nullptr.
End(R, t) ==
    IF R.t[t].pc # "end" THEN {}
    ELSE {[R EXCEPT !.S = IF R.t[t].path = "Dtor"
                          THEN [R.S EXCEPT !.h[t] = NoHandle]
                          ELSE [R.S EXCEPT !.h[t].data = NULL, !.h[t].cb = NULL],
                    !.t[t].pc = "done"]}

\* A release that decrements first and tests for zero afterwards, each as a
\* separate read or write: --ref_cnt; if (ref_cnt == 0) delete control_block_.
ReleaseDecrementFirst(R, t) ==
    LET cb == R.S.h[t].cb
        pc == R.t[t].pc
    IN  IF pc = "test"
        THEN {[R EXCEPT !.t[t].reg = v, !.t[t].pc = "store"] : v \in ReadCnt(R.S, cb)}
        ELSE IF pc = "store"
        THEN {[R EXCEPT !.S = IF R.S.b[cb].state = "live"
                              THEN [R.S EXCEPT !.b[cb].ref_cnt = R.t[t].reg - 1]
                              ELSE R.S,
                        !.t[t].pc = "dec"]}
        ELSE IF pc = "dec"
        THEN {[R EXCEPT !.t[t].reg = v,
                        !.t[t].pc = IF v = 0 THEN "delete" ELSE "end"]
                 : v \in ReadCnt(R.S, cb)}
        ELSE Delete(R, t) \cup End(R, t)

\* The next step of thread t in the release path, as the states it may lead to.
Release(R, t) ==
    Test(R, t) \cup Load(R, t) \cup Store(R, t) \cup Delete(R, t) \cup End(R, t)

\* The states in which every thread has finished, over all interleavings of
\* the threads from R on.
RECURSIVE Outcomes(_)
Outcomes(R) ==
    LET succ == UNION {Release(R, t) : t \in Threads}
    IN  IF succ = {} THEN {R} ELSE UNION {Outcomes(R2) : R2 \in succ}

\* Handles 1 and 2 are the last two handles on block 1, which owns a live
\* object (adopted, or embedded by MakeShared).
RaceStart(holder) ==
    LET S0 == IF holder
              THEN MakeShared(EmptyState, 1, TypeOfNew(1))
              ELSE PtrCtor(NewObject(EmptyState, 1), 1, TypeOfNew(1), Addr(1))
    IN  CopyCtor(S0, 2, 1)

InitRace ==
    \E holder \in BOOLEAN, p1, p2 \in Paths :
        /\ handles = RaceStart(holder).h
        /\ blocks = RaceStart(holder).b
        /\ objects = RaceStart(holder).o
        /\ news = RaceStart(holder).n
        /\ op = [name |-> "init", a |-> 0, b |-> 0, p |-> NULL]
        /\ pre = RaceStart(holder)
        /\ mid = <<>>
        /\ nops = 0
        /\ race = [t \in Threads |->
                     [pc |-> "test", reg |-> 0, path |-> IF t = 1 THEN p1 ELSE p2]]

\* Thread t takes its next step.
RaceStep(t) ==
    /\ \E R2 \in Release(CurRace, t) :
          /\ handles' = R2.S.h
          /\ blocks' = R2.S.b
          /\ objects' = R2.S.o
          /\ news' = R2.S.n
          /\ race' = R2.t
    /\ UNCHANGED <<op, pre, mid, nops>>

RaceTest(t) ==
    /\ race[t].pc = "test"
    /\ RaceStep(t)

RaceLoad(t) ==
    /\ race[t].pc = "dec"
    /\ RaceStep(t)

RaceStore(t) ==
    /\ race[t].pc = "store"
    /\ RaceStep(t)

RaceDelete(t) ==
    /\ race[t].pc = "delete"
    /\ RaceStep(t)

RaceEnd(t) ==
    /\ race[t].pc = "end"
    /\ RaceStep(t)

NextRace ==
    \/ \E t \in Threads : RaceTest(t)
    \/ \E t \in Threads : RaceLoad(t)
    \/ \E t \in Threads : RaceStore(t)
    \/ \E t \in Threads : RaceDelete(t)
    \/ \E t \in Threads : RaceEnd(t)

SpecRace == InitRace /\ [][NextRace]_vars

\* ------------------------------------------------------------- claims ---
\* The handles, temporaries included, whose control_block_ is cb.
Refs(S, cb) == {h \in Slots : S.h[h].live /\ S.h[h].cb = cb}

\* The operations that give up the ownership their first operand held.
Releases == {"Dtor", "Reset", "ResetPtr", "CopyAssign", "MoveAssign",
             "ConvCopyAssign", "ConvMoveAssign"}

\* The blocks the last operation destroyed.
FreedNow == {b \in BlockIds : pre.b[b].state = "live" /\ blocks[b].state # "live"}

\* C1: every control block and the object it owns is destroyed exactly once,
\* by the release (destructor, Reset, Reset(ptr) or assignment) of the last
\* handle that refers to it: a block is never deleted twice, its object's
\* destructor runs exactly when the block is deleted, an operation destroys a
\* block only if its first operand was the one handle left on that block, the
\* release of that last handle does destroy it, and once every handle is gone
\* every block that was allocated has been destroyed.
C1_DestroyedExactlyOnce ==
    /\ \A b \in BlockIds :
          /\ blocks[b].deleted <= 1
          /\ objects[b].dtors <= 1
          /\ (blocks[b].state = "freed") = (blocks[b].deleted = 1)
          /\ (blocks[b].state = "unalloc") => objects[b].state = "unalloc"
          /\ (objects[b].state = "dead") = (objects[b].dtors = 1)
          /\ objects[b].state = "dead" => blocks[b].state = "freed"
          /\ objects[b].state = "alive" => blocks[b].state = "live"
    /\ \A b \in FreedNow :
          /\ op.name \in Releases
          /\ Refs(pre, b) = {op.a}
    /\ \A b \in BlockIds :
          (op.name \in Releases /\ Refs(pre, b) = {op.a}) => b \in FreedNow
    /\ (\A h \in Slots : ~handles[h].live) =>
          \A b \in BlockIds : blocks[b].state # "live"

\* C1 witness: two handles shared a block; the sibling was destroyed first and
\* destroyed nothing, and now the destructor of the last handle has destroyed
\* the block and its object, once.
C1_Witness ==
    /\ op.name = "Dtor"
    /\ nops = 4
    /\ \A h \in Slots : ~handles[h].live
    /\ \E b \in FreedNow : /\ blocks[b].deleted = 1
                           /\ objects[b].dtors = 1
                           /\ pre.o[b].state = "alive"

\* ref_cnt and UseCount() agree with the number of handles on each block.
CountsMatch(S) ==
    \A b \in BlockIds :
        S.b[b].state = "live" =>
            /\ S.b[b].ref_cnt = Cardinality(Refs(S, b))
            /\ \A h \in Refs(S, b) : UseCount(S, h) = Cardinality(Refs(S, b))

\* C2: between public operations, and after each call that an assignment or
\* Swap makes (Swap's local tmp counted as a handle), the ref_cnt of every
\* existing control block equals the number of live handles that refer to it,
\* and UseCount() of each of them returns that number.
C2_CountEqualsHandles ==
    /\ CountsMatch(Cur)
    /\ \A k \in DOMAIN mid : CountsMatch(mid[k])

\* C2 witness: inside a Swap of two handles that share a block, tmp is a third
\* handle on it and the count is 3.
C2_Witness ==
    /\ op.name = "Swap"
    /\ op.a # op.b
    /\ Len(mid) = 5
    /\ \E b \in BlockIds : /\ mid[1].b[b].ref_cnt = 3
                           /\ Refs(mid[1], b) = {TMP, op.a, op.b}
                           /\ blocks[b].ref_cnt = 2

\* Nothing on the heap changed: no block allocated, destroyed or recounted,
\* no object destroyed.
HeapUnchanged == blocks = pre.b /\ objects = pre.o

\* C3 (as claimed): the copy-assignment h = h leaves h.UseCount() and h.Get()
\* unchanged and does not destroy the owned object, whether h is empty, the
\* sole owner, or one of several handles on a block.
C3_SelfCopyAssignKeeps ==
    (op.name = "CopyAssign" /\ op.a = op.b) =>
        /\ UseCount(Cur, op.a) = UseCount(pre, op.a)
        /\ Get(Cur, op.a) = Get(pre, op.a)
        /\ HeapUnchanged

\* C4 (as claimed): the move-assignment of h to itself leaves h.UseCount() and
\* h.Get() unchanged and does not destroy the owned object.
C4_SelfMoveAssignKeeps ==
    (op.name = "MoveAssign" /\ op.a = op.b) =>
        /\ UseCount(Cur, op.a) = UseCount(pre, op.a)
        /\ Get(Cur, op.a) = Get(pre, op.a)
        /\ HeapUnchanged

\* C5 (as claimed): for every handle, UseCount() == 0 if and only if the handle
\* converts to boolean false; equivalently data_ is null exactly when
\* control_block_ is absent.
C5_UseCountZeroIffFalse ==
    \A h \in Handles :
        handles[h].live =>
            /\ (UseCount(Cur, h) = 0) = (~OperatorBool(Cur, h))
            /\ (handles[h].data = NULL) = (handles[h].cb = NULL)

\* C5 (amended): for every handle, UseCount() == 0 exactly when control_block_
\* is absent, and then the handle converts to boolean false (data_ is null);
\* a handle that converts to true therefore has UseCount() >= 1.  A handle
\* that converts to false may still own a block.
C5_UseCountZeroImpliesFalse ==
    \A h \in Handles :
        handles[h].live =>
            /\ (UseCount(Cur, h) = 0) = (handles[h].cb = NULL)
            /\ UseCount(Cur, h) = 0 => ~OperatorBool(Cur, h)
            /\ OperatorBool(Cur, h) => UseCount(Cur, h) >= 1

\* C5 witness: a handle that pointed at an object was moved from; it now has
\* UseCount() == 0 and converts to false, while the handle built from it
\* converts to true with UseCount() >= 1.
C5_Witness ==
    /\ op.name = "MoveCtor"
    /\ OperatorBool(pre, op.b)
    /\ UseCount(Cur, op.b) = 0 /\ ~OperatorBool(Cur, op.b)
    /\ UseCount(Cur, op.a) >= 1 /\ OperatorBool(Cur, op.a)

\* The handles other than the operands of the last operation are untouched.
OthersUnchanged == \A h \in Slots \ {op.a, op.b} : handles[h] = pre.h[h]

\* Block cb was released once by its last handle: destroyed, with its object.
ReleasedAsLast(cb) ==
    /\ blocks[cb].state = "freed" /\ blocks[cb].deleted = 1
    /\ \A o \in Owned(pre, cb) : objects[o].state = "dead" /\ objects[o].dtors = 1

\* Block cb was released once by a handle that had siblings: it lives on with
\* its count one lower.
ReleasedAsSibling(cb) ==
    /\ blocks[cb] = [pre.b[cb] EXCEPT !.ref_cnt = @ - 1]
    /\ \A o \in Owned(pre, cb) : objects[o] = pre.o[o]

\* What the first operand owned before the call was released exactly once.
PriorReleasedOnce ==
    LET old == pre.h[op.a].cb
    IN  old # NULL =>
            IF pre.b[old].ref_cnt = 1 THEN ReleasedAsLast(old)
                                      ELSE ReleasedAsSibling(old)

\* C6: after a.Swap(b), for any two handles (empty or not, on different
\* blocks, on the same block, or a and b the same handle), a holds b's former
\* data and block and b holds a's, every block's ref_cnt is what it was before
\* the call, and no control block was allocated or destroyed.
C6_SwapExchanges ==
    op.name = "Swap" =>
        /\ handles[op.a] = pre.h[op.b]
        /\ handles[op.b] = pre.h[op.a]
        /\ ~handles[TMP].live
        /\ OthersUnchanged
        /\ \A b \in BlockIds : /\ blocks[b].ref_cnt = pre.b[b].ref_cnt
                               /\ blocks[b].state = pre.b[b].state
                               /\ blocks[b].deleted = pre.b[b].deleted
        /\ HeapUnchanged

\* C6 witness: two distinct handles, sole owners of two different blocks, were
\* swapped.
C6_Witness ==
    /\ op.name = "Swap"
    /\ op.a # op.b
    /\ pre.h[op.a].cb # NULL /\ pre.h[op.b].cb # NULL
    /\ pre.h[op.a].cb # pre.h[op.b].cb
    /\ handles[op.a].cb = pre.h[op.b].cb
    /\ UseCount(Cur, op.a) = 1 /\ UseCount(Cur, op.b) = 1

\* C7: after a = b with a and b distinct handles, a.Get() == b.Get(), a and b
\* refer to the same block (or both are empty), b is as it was, and what a
\* owned before was released exactly once: if a referred to a different block,
\* b's block has one more reference and a's old block has one less, or is
\* destroyed if a was its last handle; if a and b already shared a block, its
\* count is unchanged and it is not destroyed.
C7_CopyAssign ==
    (op.name = "CopyAssign" /\ op.a # op.b) =>
        LET old == pre.h[op.a].cb
            src == pre.h[op.b].cb
        IN  /\ Get(Cur, op.a) = Get(Cur, op.b)
            /\ handles[op.a].cb = handles[op.b].cb
            /\ handles[op.b] = pre.h[op.b]
            /\ OthersUnchanged
            /\ \A b \in BlockIds \ {old, src} : blocks[b] = pre.b[b]
            /\ IF old # src
               THEN /\ PriorReleasedOnce
                    /\ src # NULL =>
                          blocks[src] = [pre.b[src] EXCEPT !.ref_cnt = @ + 1]
               ELSE HeapUnchanged

\* C7 witness: a was the last handle of one block and b owned another; after
\* a = b the old block is destroyed and b's block has two references.
C7_Witness ==
    /\ op.name = "CopyAssign"
    /\ op.a # op.b
    /\ pre.h[op.a].cb # NULL /\ pre.h[op.b].cb # NULL
    /\ pre.h[op.a].cb # pre.h[op.b].cb
    /\ blocks[pre.h[op.a].cb].state = "freed"
    /\ UseCount(Cur, op.a) = 2

\* C8: after a = std::move(b) with a and b distinct handles, a holds b's
\* former data and block, b is empty (Get() == nullptr, UseCount() == 0), and
\* what a owned before was released exactly once: if a referred to a different
\* block, b's former block keeps its count and a's old block has one reference
\* less, or is destroyed if a was its last handle; if a and b shared a block,
\* it is not destroyed and its count drops by exactly one.
C8_MoveAssign ==
    (op.name = "MoveAssign" /\ op.a # op.b) =>
        LET old == pre.h[op.a].cb
            src == pre.h[op.b].cb
        IN  /\ handles[op.a] = pre.h[op.b]
            /\ Get(Cur, op.b) = NULL
            /\ UseCount(Cur, op.b) = 0
            /\ OthersUnchanged
            /\ \A b \in BlockIds \ {old, src} : blocks[b] = pre.b[b]
            /\ IF old # src
               THEN /\ PriorReleasedOnce
                    /\ src # NULL => blocks[src] = pre.b[src]
               ELSE old # NULL => ReleasedAsSibling(old)

\* C8 witness: a and b shared one block with two references; after
\* a = std::move(b) the block is alive with one reference, held by a.
C8_Witness ==
    /\ op.name = "MoveAssign"
    /\ op.a # op.b
    /\ pre.h[op.a].cb # NULL
    /\ pre.h[op.a].cb = pre.h[op.b].cb
    /\ UseCount(pre, op.a) = 2
    /\ UseCount(Cur, op.a) = 1
    /\ UseCount(Cur, op.b) = 0

\* Handle h exposes an address other than the one its block would report.
IsAlias(S, h) ==
    /\ S.h[h].live /\ S.h[h].cb # NULL
    /\ S.h[h].data # (IF S.b[S.h[h].cb].kind = "holder"
                      THEN GetRawPointer(S.h[h].cb) ELSE S.b[S.h[h].cb].ptr)

\* C9: the aliasing construction SharedPtr(o, ptr) from a handle o that owns a
\* block yields a handle whose Get() == ptr and that shares o's block, the
\* count raised by one and o untouched.  While any handle on a block is live,
\* an alias (or a copy of one) as much as an original, the block and the
\* object it owns are not destroyed; and the release of the last handle on the
\* block, when that handle is an alias, destroys block and object exactly once.
C9_AliasKeepsAlive ==
    /\ op.name = "AliasingCtor" =>
          /\ Get(Cur, op.a) = op.p
          /\ handles[op.a].cb = pre.h[op.b].cb
          /\ handles[op.b] = pre.h[op.b]
          /\ blocks[handles[op.a].cb] =
                [pre.b[pre.h[op.b].cb] EXCEPT !.ref_cnt = @ + 1]
          /\ objects = pre.o
    /\ \A h \in Slots :
          IsAlias(Cur, h) =>
              /\ blocks[handles[h].cb].state = "live"
              /\ blocks[handles[h].cb].deleted = 0
              /\ \A o \in Owned(Cur, handles[h].cb) :
                    objects[o].state = "alive" /\ objects[o].dtors = 0
    /\ (op.name \in Releases /\ IsAlias(pre, op.a)) =>
          IF Refs(pre, pre.h[op.a].cb) = {op.a}
          THEN ReleasedAsLast(pre.h[op.a].cb)
          ELSE blocks[pre.h[op.a].cb].state = "live"

\* C9 witness: the original handle has given up the object and the only handle
\* left on the block is an alias pointing at a member: the object is alive.
C9_Witness ==
    /\ op.name \in Releases
    /\ pre.h[op.a].cb # NULL
    /\ ~IsAlias(pre, op.a)
    /\ handles[op.a].cb # pre.h[op.a].cb
    /\ \E h \in Handles :
          /\ IsAlias(Cur, h)
          /\ handles[h].cb = pre.h[op.a].cb
          /\ handles[h].data = Member(handles[h].cb)
          /\ Refs(Cur, handles[h].cb) = {h}
          /\ objects[handles[h].cb].state = "alive"

\* C10: copy-constructing c from s (same-type or converting copy) makes
\* c.Get() == s.Get() and leaves s as it was; if s owns a block, s.UseCount()
\* and c.UseCount() both equal s's previous UseCount plus exactly 1; if s is
\* empty, c is empty and no count changes.
C10_CopyCtor ==
    op.name \in {"CopyCtor", "ConvCopyCtor"} =>
        /\ Get(Cur, op.a) = Get(Cur, op.b)
        /\ handles[op.b] = pre.h[op.b]
        /\ handles[op.a].cb = handles[op.b].cb
        /\ OthersUnchanged
        /\ objects = pre.o
        /\ IF pre.h[op.b].cb # NULL
           THEN /\ UseCount(Cur, op.b) = UseCount(pre, op.b) + 1
                /\ UseCount(Cur, op.a) = UseCount(pre, op.b) + 1
                /\ \A b \in BlockIds \ {pre.h[op.b].cb} : blocks[b] = pre.b[b]
           ELSE /\ UseCount(Cur, op.a) = 0 /\ Get(Cur, op.a) = NULL
                /\ ~OperatorBool(Cur, op.a)
                /\ blocks = pre.b

\* C10 witness: a converting copy of a handle that shared its block with one
\* other handle; both now report UseCount() == 3.
C10_Witness ==
    /\ op.name = "ConvCopyCtor"
    /\ UseCount(pre, op.b) = 2
    /\ UseCount(Cur, op.a) = 3 /\ UseCount(Cur, op.b) = 3
    /\ Get(Cur, op.a) # NULL

\* C11: move-constructing m from s (same-type or converting move) hands s's
\* data pointer and control block to m; ref_cnt stays what it was, so
\* m.UseCount() equals s's previous UseCount() and every sibling's UseCount()
\* is unchanged; nothing is allocated or destroyed; afterwards s is empty:
\* s.Get() is null, s.UseCount() is 0 and s converts to false.
C11_MoveCtor ==
    op.name \in {"MoveCtor", "ConvMoveCtor"} =>
        /\ Get(Cur, op.a) = Get(pre, op.b)
        /\ handles[op.a].cb = pre.h[op.b].cb
        /\ handles[op.a].live
        /\ UseCount(Cur, op.a) = UseCount(pre, op.b)
        /\ blocks = pre.b
        /\ objects = pre.o
        /\ news = pre.n
        /\ OthersUnchanged
        /\ \A g \in Slots \ {op.a, op.b} : UseCount(Cur, g) = UseCount(pre, g)
        /\ Get(Cur, op.b) = NULL
        /\ UseCount(Cur, op.b) = 0
        /\ ~OperatorBool(Cur, op.b)
        /\ handles[op.b].live

\* C11 witness: a converting move out of a handle that shared its block with a
\* sibling: the new handle reports UseCount() == 2 as the source did, the
\* sibling still reports 2, and the source is empty.
C11_Witness ==
    /\ op.name = "ConvMoveCtor"
    /\ UseCount(pre, op.b) = 2
    /\ Get(pre, op.b) # NULL
    /\ UseCount(Cur, op.a) = 2
    /\ Get(Cur, op.a) = Get(pre, op.b)
    /\ \E g \in Slots \ {op.a, op.b} : handles[g].cb = handles[op.a].cb
                                        /\ UseCount(Cur, g) = 2
    /\ handles[op.b].cb = NULL /\ Get(Cur, op.b) = NULL

\* C12: after h.Reset(), h.Get() is null and h.UseCount() is 0; if h was the
\* last handle on its block the block and the owned object are destroyed,
\* otherwise the block's ref_cnt drops by exactly 1 and the object stays
\* alive; Reset() on an empty handle changes nothing; no block is allocated
\* and no other handle or block is touched.
C12_Reset ==
    op.name = "Reset" =>
        /\ Get(Cur, op.a) = NULL
        /\ UseCount(Cur, op.a) = 0
        /\ handles[op.a] = [live |-> TRUE, data |-> NULL, cb |-> NULL]
        /\ PriorReleasedOnce
        /\ \A b \in BlockIds \ {pre.h[op.a].cb} : blocks[b] = pre.b[b]
        /\ \A o \in BlockIds \ Owned(pre, pre.h[op.a].cb) : objects[o] = pre.o[o]
        /\ OthersUnchanged
        /\ news = pre.n
        /\ pre.h[op.a].cb = NULL => Cur = pre

\* C12 witness: Reset() of the last handle on a block that owns a live object:
\* the block is deleted once and the object's destructor ran once.
C12_Witness ==
    /\ op.name = "Reset"
    /\ pre.h[op.a].cb # NULL
    /\ UseCount(pre, op.a) = 1
    /\ Get(pre, op.a) # NULL
    /\ blocks[pre.h[op.a].cb].state = "freed"
    /\ objects[ObjOf(Get(pre, op.a))].state = "dead"
    /\ Get(Cur, op.a) = NULL /\ UseCount(Cur, op.a) = 0

\* The sibling case of C12 happens too: Reset() of a handle with one sibling
\* took one off ref_cnt and left the object alive.
C12_WitnessSibling ==
    /\ op.name = "Reset"
    /\ UseCount(pre, op.a) = 2
    /\ blocks[pre.h[op.a].cb].ref_cnt = 1
    /\ \A o \in Owned(pre, pre.h[op.a].cb) : objects[o].state = "alive"

\* C13: after h.Reset(p), h.Get() == p and h.UseCount() == 1 on a fresh
\* ControlBlockPtr that no other handle refers to; whatever h held before is
\* released exactly once (destroyed with its object if h was its last handle,
\* otherwise its count drops by one); exactly one block is allocated by the
\* call; no other handle or block is touched.
C13_ResetPtr ==
    op.name = "ResetPtr" =>
        LET nb == handles[op.a].cb
            old == pre.h[op.a].cb
        IN  /\ Get(Cur, op.a) = op.p
            /\ UseCount(Cur, op.a) = 1
            /\ nb # NULL /\ nb # old
            /\ pre.b[nb].state = "unalloc"
            /\ blocks[nb].state = "live" /\ blocks[nb].kind = "ptr"
            /\ blocks[nb].ptr = op.p
            /\ Refs(Cur, nb) = {op.a}
            /\ PriorReleasedOnce
            /\ news = pre.n + 1
            /\ {b \in BlockIds : pre.b[b].state = "unalloc"
                                 /\ blocks[b].state # "unalloc"} = {nb}
            /\ \A b \in BlockIds \ {nb, old} : blocks[b] = pre.b[b]
            /\ op.p # NULL => objects[ObjOf(op.p)].state = "alive"
            /\ OthersUnchanged

\* C13 witness: Reset(p) with a non-null p on the last handle of a block that
\* owned a live object: the old block and object are destroyed once, and the
\* handle owns p through a fresh block with UseCount() == 1.
C13_Witness ==
    /\ op.name = "ResetPtr"
    /\ op.p # NULL
    /\ UseCount(pre, op.a) = 1 /\ Get(pre, op.a) # NULL
    /\ blocks[pre.h[op.a].cb].deleted = 1
    /\ objects[ObjOf(Get(pre, op.a))].dtors = 1
    /\ Get(Cur, op.a) = op.p /\ UseCount(Cur, op.a) = 1
    /\ objects[ObjOf(op.p)].state = "alive"

\* The blocks that came into being during the last operation.
AllocatedNow == {b \in BlockIds : pre.b[b].state = "unalloc"
                                  /\ blocks[b].state # "unalloc"}

\* C14: MakeShared<Y>(args...) performs exactly one allocation, of one
\* ControlBlockHolder whose storage_ holds the payload (no separate payload
\* allocation), and returns a handle with UseCount() == 1 whose Get() is the
\* non-null address of that embedded payload; the payload is alive as long as
\* its block, and is destroyed in place, as a Y and exactly once, together
\* with the block, when the last handle on the block is released.
C14_MakeShared ==
    /\ op.name = "MakeShared" =>
          LET nb == handles[op.a].cb
          IN  /\ news = pre.n + 1
              /\ AllocatedNow = {nb}
              /\ blocks[nb].state = "live" /\ blocks[nb].kind = "holder"
              /\ UseCount(Cur, op.a) = 1
              /\ Refs(Cur, nb) = {op.a}
              /\ Get(Cur, op.a) = GetRawPointer(nb)
              /\ Get(Cur, op.a) # NULL
              /\ Owned(Cur, nb) = {ObjOf(Get(Cur, op.a))}
              /\ pre.o[nb].state = "unalloc" /\ objects[nb].state = "alive"
              /\ \A b \in BlockIds \ {nb} : blocks[b] = pre.b[b] /\ objects[b] = pre.o[b]
              /\ OthersUnchanged
    /\ \A b \in BlockIds :
          blocks[b].kind = "holder" =>
              /\ blocks[b].state = "live" =>
                    objects[b].state = "alive" /\ objects[b].dtors = 0
              /\ blocks[b].state = "freed" =>
                    /\ objects[b].state = "dead" /\ objects[b].dtors = 1
                    /\ objects[b].dtorType = blocks[b].Y
                    /\ blocks[b].deleted = 1
              /\ b \in FreedNow => op.name \in Releases /\ Refs(pre, b) = {op.a}

\* C14 witness: the release of the last handle on a MakeShared block, after
\* three earlier operations, has destroyed the block and the payload embedded
\* in it, once each.
C14_Witness ==
    \E b \in FreedNow :
        /\ blocks[b].kind = "holder"
        /\ pre.b[b].ref_cnt = 1
        /\ pre.o[b].state = "alive"
        /\ objects[b].state = "dead" /\ objects[b].dtors = 1
        /\ blocks[b].deleted = 1
        /\ nops = 4

\* MakeShared itself has acted: one allocation, UseCount() == 1.
C14_WitnessMade ==
    /\ op.name = "MakeShared"
    /\ news = pre.n + 1
    /\ UseCount(Cur, op.a) = 1
    /\ Get(Cur, op.a) = GetRawPointer(handles[op.a].cb)

\* C15: the release action of a block is fixed when the block is created, by
\* the concrete type Y of the pointer adopted (or of MakeShared<Y>): a block
\* never changes its Y, its kind or the pointer it owns, and when the block is
\* destroyed the destructor that runs on its object is Y's, whatever
\* conversions, copies or moves the handles went through in between.
C15_ReleaseFixedAtCreation ==
    /\ \A b \in BlockIds :
          /\ b \in AllocatedNow =>
                /\ blocks[b].Y = TypeOfNew(b)
                /\ op.name \in {"PtrCtor", "ResetPtr", "MakeShared"}
          /\ pre.b[b].state # "unalloc" =>
                /\ blocks[b].Y = pre.b[b].Y
                /\ blocks[b].kind = pre.b[b].kind
                /\ blocks[b].ptr = pre.b[b].ptr
          /\ blocks[b].state # "unalloc" => blocks[b].Y = TypeOfNew(b)
    /\ \A o \in BlockIds :
          objects[o].state = "dead" => objects[o].dtorType = TypeOfNew(o)
    /\ \A b \in FreedNow :
          \A o \in Owned(pre, b) : objects[o].dtorType = pre.b[b].Y

\* C15 witness: a Derived object was adopted by handle 1, handle 2 took the
\* block over by a (converting) move, and handle 2's destructor destroyed the
\* block: the destructor that ran on the object is Derived's.
C15_Witness ==
    /\ op.name = "Dtor" /\ op.a = 2 /\ nops = 3
    /\ handles[1].live /\ handles[1].cb = NULL
    /\ 1 \in FreedNow
    /\ blocks[1].kind = "ptr" /\ blocks[1].Y = "Derived"
    /\ objects[1].state = "dead" /\ objects[1].dtorType = "Derived"

\* The public operations that allocate a control block.
Allocating == {"PtrCtor", "ResetPtr", "MakeShared"}

\* C16: default construction and construction from nullptr allocate no block
\* and yield an empty handle (Get() null, UseCount() 0, false). The number of
\* control blocks ever allocated equals the number of calls of SharedPtr(Y*),
\* Reset(Y*) and MakeShared: the count starts at 0, each such call adds
\* exactly one block, and every other operation (copy, move, aliasing,
\* assignment, Reset(), Swap, destruction) adds none; the library calls
\* operator new for nothing else.
C16_Allocations ==
    /\ op.name \in {"DefaultCtor", "NullptrCtor"} =>
          /\ handles[op.a] = [live |-> TRUE, data |-> NULL, cb |-> NULL]
          /\ Get(Cur, op.a) = NULL
          /\ UseCount(Cur, op.a) = 0
          /\ ~OperatorBool(Cur, op.a)
          /\ blocks = pre.b /\ objects = pre.o
          /\ OthersUnchanged
    /\ news = Cardinality({b \in BlockIds : blocks[b].state # "unalloc"})
    /\ op.name = "init" => news = 0
    /\ op.name \in Allocating => news = pre.n + 1 /\ Cardinality(AllocatedNow) = 1
    /\ op.name \notin Allocating => news = pre.n /\ AllocatedNow = {}

\* C16 witness: after two allocating calls a handle is constructed from
\* nullptr: it is empty and the number of blocks allocated is still two.
C16_Witness ==
    /\ op.name = "NullptrCtor"
    /\ pre.n = 2 /\ news = 2
    /\ handles[op.a].cb = NULL
    /\ Cardinality({b \in BlockIds : blocks[b].state # "unalloc"}) = 2

\* Every block that exists in S counts at least one and has a live handle.
BlocksHeld(S) ==
    \A b \in BlockIds :
        S.b[b].state = "live" => S.b[b].ref_cnt >= 1 /\ Refs(S, b) # {}

\* C17: every control block is created with ref_cnt == 1; every block that
\* exists has ref_cnt >= 1 and is referred to by at least one live handle,
\* after every public operation and between the calls an operation makes;
\* once every handle has been destroyed no block remains.
C17_BlockLifetime ==
    /\ \A b \in AllocatedNow :
          /\ blocks[b].state = "live"
          /\ blocks[b].ref_cnt = 1
          /\ Cardinality(Refs(Cur, b)) = 1
    /\ BlocksHeld(Cur)
    /\ \A k \in 1..Len(mid) : BlocksHeld(mid[k])
    /\ (\A h \in Slots : ~handles[h].live) =>
          \A b \in BlockIds : blocks[b].state # "live"

\* C17 witness: two blocks were allocated and both handles have been
\* destroyed since: no handle is left and neither block remains.
C17_Witness ==
    /\ news = 2
    /\ \A h \in Slots : ~handles[h].live
    /\ \A b \in BlockIds : blocks[b].state = "freed" /\ blocks[b].deleted = 1

\* C18 as claimed: Swap performs no copy that increments a count: at no
\* intermediate step of a.Swap(b) does the ref_cnt of any control block differ
\* from its value before the call.
C18_SwapNeverTouchesCounts ==
    op.name = "Swap" =>
        \A k \in 1..Len(mid) : \A b \in BlockIds :
            mid[k].b[b].ref_cnt = pre.b[b].ref_cnt

\* C18 as the code has it: Swap works by copying. Right after `auto tmp =
\* *this` the block of a, if a has one, counts one more than before the call;
\* at every intermediate step of a.Swap(b) each block's ref_cnt is its value
\* before the call or that value plus one, never less, and no block is
\* destroyed or allocated; when Swap returns, every block is as it was before
\* the call and the temporary is gone.
C18_SwapCountsRestored ==
    op.name = "Swap" =>
        /\ Len(mid) = 5
        /\ pre.h[op.a].cb # NULL =>
              mid[1].b[pre.h[op.a].cb].ref_cnt = pre.b[pre.h[op.a].cb].ref_cnt + 1
        /\ mid[1].h[TMP] = [live |-> TRUE, data |-> pre.h[op.a].data,
                            cb |-> pre.h[op.a].cb]
        /\ \A k \in 1..Len(mid) : \A b \in BlockIds :
              /\ mid[k].b[b].ref_cnt \in {pre.b[b].ref_cnt, pre.b[b].ref_cnt + 1}
              /\ mid[k].b[b].state = pre.b[b].state
              /\ mid[k].o[b] = pre.o[b]
        /\ blocks = pre.b
        /\ objects = pre.o
        /\ news = pre.n
        /\ ~handles[TMP].live

\* C18 witness: a.Swap(b) of two handles that are the only owners of two
\* different blocks: inside the call a's block counted 2, and both blocks
\* count 1 again at the end.
C18_Witness ==
    /\ op.name = "Swap"
    /\ op.a # op.b
    /\ pre.h[op.a].cb # NULL /\ pre.h[op.b].cb # NULL
    /\ pre.h[op.a].cb # pre.h[op.b].cb
    /\ UseCount(pre, op.a) = 1 /\ UseCount(pre, op.b) = 1
    /\ mid[1].b[pre.h[op.a].cb].ref_cnt = 2
    /\ \E k \in 1..Len(mid) : mid[k].b[pre.h[op.b].cb].ref_cnt = 2
    /\ UseCount(Cur, op.a) = 1 /\ UseCount(Cur, op.b) = 1
    /\ handles[op.a].cb = pre.h[op.b].cb

\* What the destination held before an assignment was released exactly once
\* and the source's block gained the destination (a copy: one more reference;
\* a move: as many as before), whether the two held different blocks or
\* shared one; no other block is touched.
AssignReleasedOnce(moved) ==
    LET old == pre.h[op.a].cb
        src == pre.h[op.b].cb
    IN  /\ \A b \in BlockIds \ {old, src} : blocks[b] = pre.b[b]
        /\ IF old # src
           THEN /\ PriorReleasedOnce
                /\ src # NULL =>
                      blocks[src] = [pre.b[src] EXCEPT
                                        !.ref_cnt = IF moved THEN @ ELSE @ + 1]
           ELSE IF moved THEN old # NULL => ReleasedAsSibling(old)
                         ELSE HeapUnchanged

\* C19: assignment from a handle of a different convertible type uses no
\* operator= of its own. It runs as: converting copy (or move) construction of
\* a temporary from the source, move-assignment of the temporary into the
\* destination, destruction of the emptied temporary. Its end state is that of
\* the same-type assignment: after the converting copy-assignment the
\* destination shares the source's block, the source is as it was and the
\* count equals the number of live handles on the block; after the converting
\* move-assignment the destination holds the source's former data and block
\* and the source is empty (false, UseCount() == 0); in both cases what the
\* destination held before is released exactly once.
C19_ConvertingAssign ==
    /\ op.name \in {"ConvCopyAssign", "ConvMoveAssign"} =>
          /\ Len(mid) = 3
          /\ mid[1].h[TMP] = [live |-> TRUE, data |-> pre.h[op.b].data,
                              cb |-> pre.h[op.b].cb]
          /\ mid[3].h[op.a] = mid[1].h[TMP]
          /\ mid[3].h[TMP] = [live |-> TRUE, data |-> NULL, cb |-> NULL]
          /\ ~handles[TMP].live
          /\ blocks = mid[3].b /\ objects = mid[3].o
          /\ OthersUnchanged
          /\ news = pre.n
          /\ handles[op.a].cb # NULL =>
                UseCount(Cur, op.a) = Cardinality(Refs(Cur, handles[op.a].cb))
    /\ op.name = "ConvCopyAssign" =>
          /\ mid[1] = ConvCopyCtor(pre, TMP, op.b)
          /\ Cur = Final(CopyAssign(pre, op.a, op.b))
          /\ handles[op.a] = pre.h[op.b]
          /\ handles[op.b] = pre.h[op.b]
          /\ AssignReleasedOnce(FALSE)
    /\ op.name = "ConvMoveAssign" =>
          /\ mid[1] = ConvMoveCtor(pre, TMP, op.b)
          /\ Cur = Final(MoveAssign(pre, op.a, op.b))
          /\ handles[op.a] = pre.h[op.b]
          /\ Get(Cur, op.b) = NULL
          /\ UseCount(Cur, op.b) = 0
          /\ ~OperatorBool(Cur, op.b)
          /\ AssignReleasedOnce(TRUE)

\* C19 witness: s3 = std::move(s1) across types: s3 was the last handle of one
\* block, s1 shared another with a sibling; now s3's former block is destroyed,
\* s3 holds s1's former block, whose count is still 2, and s1 is empty.
C19_Witness ==
    /\ op.name = "ConvMoveAssign"
    /\ pre.h[op.a].cb # NULL /\ pre.h[op.b].cb # NULL
    /\ pre.h[op.a].cb # pre.h[op.b].cb
    /\ Get(pre, op.b) # NULL
    /\ UseCount(pre, op.b) = 2
    /\ handles[op.a] = pre.h[op.b]
    /\ UseCount(Cur, op.a) = 2
    /\ handles[op.b].cb = NULL /\ ~OperatorBool(Cur, op.b)
    /\ blocks[pre.h[op.a].cb].state = "freed"

\* The converting copy-assignment happens too: the destination was the last
\* handle of its block, which is destroyed, and now shares the source's block.
C19_WitnessCopy ==
    /\ op.name = "ConvCopyAssign"
    /\ pre.h[op.a].cb # NULL /\ pre.h[op.b].cb # NULL
    /\ pre.h[op.a].cb # pre.h[op.b].cb
    /\ blocks[pre.h[op.a].cb].state = "freed"
    /\ UseCount(Cur, op.a) = 2 /\ UseCount(Cur, op.b) = 2

\* The block the two threads release, and what has become of it in state S.
RaceBlock == pre.h[1].cb
DestroyedOnce(S) ==
    /\ S.b[RaceBlock].state = "freed" /\ S.b[RaceBlock].deleted = 1
    /\ S.o[RaceBlock].state = "dead" /\ S.o[RaceBlock].dtors = 1
Leaked(S) ==
    /\ S.b[RaceBlock].state = "live" /\ S.b[RaceBlock].deleted = 0
    /\ S.b[RaceBlock].ref_cnt \in {0, 1}
    /\ S.o[RaceBlock].state = "alive"
    /\ Refs(S, RaceBlock) = {}
RaceStarts == \A t \in Threads : race[t].pc = "test"
RaceOver == \A t \in Threads : race[t].pc = "done"

\* C20 as claimed: with the release path as coded (read ref_cnt, compare with
\* 1, then delete the block or decrement, as separate non-atomic steps), when
\* the last two handles on one block are released by two threads whose steps
\* interleave arbitrarily, there is an interleaving in which the block is
\* destroyed twice.
C20_DoubleDestroyRace ==
    RaceStarts => \E R \in Outcomes(CurRace) : R.S.b[RaceBlock].deleted >= 2

\* C20 as the code has it: in no interleaving is the block destroyed twice, or
\* read, written or deleted after it was destroyed: a thread deletes only
\* after it read ref_cnt == 1, which the other thread wrote as the last access
\* of its own release. The race loses the destruction instead: there is an
\* interleaving in which both threads read 2 and both decrement, and then no
\* handle is left while the block, with ref_cnt 1 or 0, and its object are
\* never destroyed; every interleaving ends either so or with the block and
\* the object destroyed once.
C20_RaceLeaksNeverDestroysTwice ==
    /\ \A b \in BlockIds : blocks[b].deleted <= 1 /\ objects[b].dtors <= 1
    /\ \A t \in Threads :
          /\ race[t].pc \in {"test", "dec", "store", "delete"} =>
                blocks[RaceBlock].state = "live"
          /\ race[t].pc = "delete" =>
                /\ race[t].reg = 1
                /\ \A u \in Threads \ {t} : race[u].pc \in {"end", "done"}
    /\ RaceOver => DestroyedOnce(Cur) \/ Leaked(Cur)
    /\ RaceStarts =>
          /\ \E R \in Outcomes(CurRace) : Leaked(R.S)
          /\ \E R \in Outcomes(CurRace) : DestroyedOnce(R.S)
          /\ \A R \in Outcomes(CurRace) : R.S.b[RaceBlock].deleted <= 1

\* C20 witness: both threads have finished their release, both took the
\* decrement branch, no handle is left and the block and its object still
\* exist.
C20_Witness ==
    /\ RaceOver
    /\ \A t \in Threads : race[t].reg = 2
    /\ Leaked(Cur)
    /\ \A h \in Slots : handles[h].cb = NULL

\* No handle of S, the temporary included, holds a control_block_ that has
\* been destroyed; a handle that does not exist holds nothing.
NoDangling(S) ==
    \A h \in Slots :
        /\ S.h[h].cb # NULL => S.h[h].live /\ S.b[S.h[h].cb].state = "live"
        /\ S.h[h].cb # NULL => S.b[S.h[h].cb].deleted = 0

\* C21: after any sequence of public operations (aliasing only from handles
\* that own a block, each raw pointer adopted at most once) no live handle's
\* control_block_ refers to a block that has been destroyed, after the
\* operation and between the calls it makes, so every release (the operation
\* itself, or the Reset and the destructor of the temporary inside an
\* assignment or Swap) starts from a handle whose block, if any, is alive and
\* never reads or decrements the count of a freed block. In particular: after
\* self-copy-assignment and self-move-assignment of a sole owner the handle is
\* empty, not dangling; after assignment between handles that share a block
\* the block is alive; and it holds at every step of Swap.
C21_NoDanglingHandle ==
    /\ NoDangling(Cur)
    /\ NoDangling(pre)
    /\ \A k \in 1..Len(mid) : NoDangling(mid[k])
    /\ \A b \in BlockIds :
          /\ blocks[b].state = "freed" =>
                /\ Refs(Cur, b) = {}
                /\ pre.b[b].state = "freed" => blocks[b] = pre.b[b]
          /\ \A k \in 1..Len(mid) :
                pre.b[b].state = "freed" => mid[k].b[b] = pre.b[b]
    /\ (op.name \in {"CopyAssign", "MoveAssign"} /\ op.a = op.b
            /\ UseCount(pre, op.a) = 1) =>
          /\ handles[op.a].cb = NULL
          /\ blocks[pre.h[op.a].cb].state = "freed"
          /\ blocks[pre.h[op.a].cb].deleted = 1
    /\ (op.name \in {"CopyAssign", "MoveAssign", "ConvCopyAssign", "ConvMoveAssign"}
            /\ op.a # op.b /\ pre.h[op.a].cb # NULL
            /\ pre.h[op.a].cb = pre.h[op.b].cb) =>
          /\ blocks[pre.h[op.a].cb].state = "live"
          /\ handles[op.a].cb = pre.h[op.a].cb

\* C21 witness: a sole owner was copy-assigned to itself: its block is
\* destroyed, once, and the handle holds no block.
C21_Witness ==
    /\ op.name = "CopyAssign"
    /\ op.a = op.b
    /\ pre.h[op.a].cb # NULL
    /\ UseCount(pre, op.a) = 1
    /\ blocks[pre.h[op.a].cb].state = "freed"
    /\ handles[op.a].live /\ handles[op.a].cb = NULL
    /\ NoDangling(Cur)

====
